---- MODULE Spec2Model ----
(***************************************************************************)
(* PBR Explorer: a material previewer in two front-ends over three.js.     *)
(*   - the component version: App.tsx (state, handlers) and                *)
(*     MaterialViewer (unnamed/part_000, rendering as a function of props) *)
(*   - the vanilla version: unnamed/part_001 (state object, three.js       *)
(*     objects, DOM listeners, asynchronous TextureLoader callbacks)       *)
(* A behaviour is a run of one of the two front-ends (impl), driven by the *)
(* user's events and by the browser completing image loads.                *)
(*                                                                         *)
(* Numbers with decimals are kept in hundredths (tiling 1 is 100,          *)
(* displacementScale 0.05 is 5).  File names are TLA+ strings, read        *)
(* character by character with Len and SubSeq.  Purely visual state (CSS   *)
(* classes, the drag overlay, the camera) is outside the model.            *)
(***************************************************************************)
EXTENDS Integers, Sequences, FiniteSets, TLC

VARIABLES
    filename,    \* classifier run: the file name given to matchTextureType
    matched,     \* classifier run: what each front-end's matchTextureType returned
    impl,        \* which front-end this run is: "component" or "vanilla"
    objectUrls,  \* browser: the object URLs created so far, URL id = index
    material,    \* App.tsx: useState<MaterialState>
    settings,    \* App.tsx: useState<ViewerSettings>
    state,       \* part_001: the state object (material, settings, textureFiles)
    textures,    \* part_001: the THREE.Texture objects made by the loader, by id
    loads,       \* part_001: textureLoader.load calls whose callback has not run
    mesh,        \* part_001: the current THREE.Mesh (geometry, rotation, material)
    renderer,    \* part_001: the WebGLRenderer (toneMappingExposure)
    controls,    \* part_001: OrbitControls (autoRotate)
    ui,          \* part_001: slider and numeric box of each parameter
    budget,      \* parameter events the run may still take (bounds the run)
    lastAction,  \* history: the last user action on each slot
    lastEvent    \* history: the event handled last (a drop's arg: files counted)

vars == <<filename, matched, impl, objectUrls, material, settings, state,
          textures, loads, mesh, renderer, controls, ui, budget, lastAction,
          lastEvent>>

appVars == <<impl, objectUrls, material, settings, state, textures, loads,
             mesh, renderer, controls, ui, budget, lastAction, lastEvent>>

(***************************************************************************)
(* Bounds of the model.                                                    *)
(***************************************************************************)
MaxParts == 2        \* a classified file name is made of at most this many words
MaxFiles == 2        \* files in one drop
MaxUrls == 2         \* object URLs a run creates
MaxParamEvents == 1  \* slider / numeric box events in a run
MaxCaseParts == 1    \* words of a file name whose letter case is varied

(***************************************************************************)
(* Strings.                                                                *)
(***************************************************************************)
UpperCase == "ABCDEFGHIJKLMNOPQRSTUVWXYZ"
LowerCase == "abcdefghijklmnopqrstuvwxyz"

\* one character of String.prototype.toLowerCase
LowerChar(c) ==
    IF \E i \in 1..Len(UpperCase) : SubSeq(UpperCase, i, i) = c
    THEN LET i == CHOOSE j \in 1..Len(UpperCase) : SubSeq(UpperCase, j, j) = c
         IN  SubSeq(LowerCase, i, i)
    ELSE c

RECURSIVE toLowerCase(_)
toLowerCase(s) ==
    IF Len(s) = 0 THEN ""
    ELSE LowerChar(SubSeq(s, 1, 1)) \o toLowerCase(SubSeq(s, 2, Len(s)))

\* String.prototype.includes: k occurs in f as a contiguous substring
includes(f, k) ==
    \E i \in 1..(Len(f) - Len(k) + 1) : SubSeq(f, i, i + Len(k) - 1) = k

(***************************************************************************)
(* The texture slots and the classifier.                                   *)
(***************************************************************************)
slots == <<"map", "normalMap", "roughnessMap", "metalnessMap", "aoMap",
           "displacementMap">>
SlotIds == {slots[i] : i \in 1..Len(slots)}
SlotIndex(s) == CHOOSE i \in 1..Len(slots) : slots[i] = s

null == "null"   \* matchTextureType's null

\* matchTextureType without the toLowerCase
matchTextureTypeCaseSensitive(name) ==
    LET f == name IN
    IF includes(f, "albedo") \/ includes(f, "diffuse")
         \/ includes(f, "basecolor") \/ includes(f, "color") THEN "map"
    ELSE IF includes(f, "normal") \/ includes(f, "nrm") \/ includes(f, "nm")
    THEN "normalMap"
    ELSE IF includes(f, "roughness") \/ includes(f, "rough") \/ includes(f, "rgh")
    THEN "roughnessMap"
    ELSE IF includes(f, "metal") \/ includes(f, "mtl") THEN "metalnessMap"
    ELSE IF includes(f, "ao") \/ includes(f, "ambientocclusion")
              \/ includes(f, "occlusion") THEN "aoMap"
    ELSE IF includes(f, "height") \/ includes(f, "displacement")
              \/ includes(f, "disp") THEN "displacementMap"
    ELSE null

\* matchTextureType with the normal group tested before the albedo group
matchTextureTypeNormalFirst(name) ==
    LET f == toLowerCase(name) IN
    IF includes(f, "normal") \/ includes(f, "nrm") \/ includes(f, "nm")
    THEN "normalMap"
    ELSE IF includes(f, "albedo") \/ includes(f, "diffuse")
         \/ includes(f, "basecolor") \/ includes(f, "color") THEN "map"
    ELSE IF includes(f, "roughness") \/ includes(f, "rough") \/ includes(f, "rgh")
    THEN "roughnessMap"
    ELSE IF includes(f, "metal") \/ includes(f, "mtl") THEN "metalnessMap"
    ELSE IF includes(f, "ao") \/ includes(f, "ambientocclusion")
              \/ includes(f, "occlusion") THEN "aoMap"
    ELSE IF includes(f, "height") \/ includes(f, "displacement")
              \/ includes(f, "disp") THEN "displacementMap"
    ELSE null

\* App.tsx
matchTextureType(name) ==
    LET f == toLowerCase(name) IN
    IF includes(f, "albedo") \/ includes(f, "diffuse")
         \/ includes(f, "basecolor") \/ includes(f, "color") THEN "map"
    ELSE IF includes(f, "normal") \/ includes(f, "nrm") \/ includes(f, "nm")
    THEN "normalMap"
    ELSE IF includes(f, "roughness") \/ includes(f, "rough") \/ includes(f, "rgh")
    THEN "roughnessMap"
    ELSE IF includes(f, "metal") \/ includes(f, "mtl") THEN "metalnessMap"
    ELSE IF includes(f, "ao") \/ includes(f, "ambientocclusion")
              \/ includes(f, "occlusion") THEN "aoMap"
    ELSE IF includes(f, "height") \/ includes(f, "displacement")
              \/ includes(f, "disp") THEN "displacementMap"
    ELSE null

\* part_001 (the same text as App.tsx's)
matchTextureTypeVanilla(name) ==
    LET f == toLowerCase(name) IN
    IF includes(f, "albedo") \/ includes(f, "diffuse")
         \/ includes(f, "basecolor") \/ includes(f, "color") THEN "map"
    ELSE IF includes(f, "normal") \/ includes(f, "nrm") \/ includes(f, "nm")
    THEN "normalMap"
    ELSE IF includes(f, "roughness") \/ includes(f, "rough") \/ includes(f, "rgh")
    THEN "roughnessMap"
    ELSE IF includes(f, "metal") \/ includes(f, "mtl") THEN "metalnessMap"
    ELSE IF includes(f, "ao") \/ includes(f, "ambientocclusion")
              \/ includes(f, "occlusion") THEN "aoMap"
    ELSE IF includes(f, "height") \/ includes(f, "displacement")
              \/ includes(f, "disp") THEN "displacementMap"
    ELSE null

\* the keyword groups the README documents, by slot
ReadmeKeywords(s) ==
    CASE s = "map" -> {"albedo", "diffuse", "basecolor", "color"}
      [] s = "normalMap" -> {"normal", "nrm", "nm"}
      [] s = "roughnessMap" -> {"roughness", "rough", "rgh"}
      [] s = "metalnessMap" -> {"metal", "mtl"}
      [] s = "aoMap" -> {"ao", "ambientocclusion"}
      [] s = "displacementMap" -> {"height", "displacement", "disp"}

\* the keyword groups the code tests, by slot
CodeKeywords(s) ==
    CASE s = "map" -> {"albedo", "diffuse", "basecolor", "color"}
      [] s = "normalMap" -> {"normal", "nrm", "nm"}
      [] s = "roughnessMap" -> {"roughness", "rough", "rgh"}
      [] s = "metalnessMap" -> {"metal", "mtl"}
      [] s = "aoMap" -> {"ao", "ambientocclusion", "occlusion"}
      [] s = "displacementMap" -> {"height", "displacement", "disp"}

(***************************************************************************)
(* File names given to the classifier: up to MaxParts words, concatenated. *)
(* The words are the keywords, some of them in other letter cases, and     *)
(* words that hold a keyword by accident or make one across a boundary.    *)
(***************************************************************************)
Words ==
    {"albedo", "diffuse", "basecolor", "color", "normal", "nrm", "nm",
     "roughness", "rough", "rgh", "metal", "mtl", "ao", "ambientocclusion",
     "occlusion", "height", "displacement", "disp",
     "Albedo", "NORMAL", "Metallic", "AO", "Height_",
     "brick_", "wood", "_", ".png", "chaos", "environment", "lava", "ocean",
     "notes.txt"}

RECURSIVE NamesOf(_)
NamesOf(n) ==
    IF n = 0 THEN {""}
    ELSE LET shorter == NamesOf(n - 1)
         IN  shorter \cup {w \o s : w \in Words, s \in shorter}

FileNames == NamesOf(MaxParts) \ {""}

(***************************************************************************)
(* Shapes, parameters and their defaults.                                  *)
(***************************************************************************)
Shapes == {"cube", "sphere", "plane"}

\* part_001 initUI: params; the component version has range inputs for three
params == <<"tiling", "displacementScale", "exposure", "roughness", "metalness">>
ParamIds == {params[i] : i \in 1..Len(params)}
ComponentParamIds == {"tiling", "displacementScale", "exposure"}

DefaultTiling == 100
DefaultDisplacementScale == 5
DefaultExposure == 100
DefaultRoughness == 100
DefaultMetalness == 0

DefaultSettings ==
    [shape |-> "cube", tiling |-> DefaultTiling,
     displacementScale |-> DefaultDisplacementScale,
     exposure |-> DefaultExposure, roughness |-> DefaultRoughness,
     metalness |-> DefaultMetalness]

\* min and max of the range input of a parameter
SliderMin(p) == IF p = "tiling" THEN 10 ELSE 0
SliderMax(p) ==
    CASE p = "tiling" -> 1000
      [] p = "exposure" -> 200
      [] OTHER -> 100

\* the positions a slider event is taken at: both ends
SliderValues(p) == {SliderMin(p), SliderMax(p)}

(***************************************************************************)
(* The text of a numeric box: the number it starts with, if any (digits is *)
(* <<n>> or <<>>), and whether other characters follow.  parseFloat reads  *)
(* the leading number and is NaN (<<>>) when there is none.                *)
(***************************************************************************)
NaN == <<>>
isNaN(v) == v = NaN
parseFloat(text) == text.digits
NumberToString(n) == [digits |-> <<n>>, rest |-> FALSE]
TypedTexts ==
    {[digits |-> <<>>, rest |-> TRUE],       \* "abc"
     [digits |-> <<-50>>, rest |-> FALSE],   \* "-0.5"
     [digits |-> <<50>>, rest |-> FALSE],    \* "0.5"
     [digits |-> <<5000>>, rest |-> FALSE]}  \* "50"

Max(a, b) == IF a >= b THEN a ELSE b
Min(a, b) == IF a <= b THEN a ELSE b

(***************************************************************************)
(* Files the user drops on the application.                                *)
(***************************************************************************)
DropNames ==
    {"Brick_Albedo.png", "brick_metal.png", "wood_rough.png", "notes.txt"}

RECURSIVE SeqsUpTo(_, _)
SeqsUpTo(S, n) ==
    IF n = 0 THEN {<<>>}
    ELSE LET shorter == SeqsUpTo(S, n - 1)
         IN  shorter \cup {Append(q, x) : q \in shorter, x \in S}

\* matchTextureType on the dropped names, computed once per name
TypeOfFile == [n \in DropNames |-> matchTextureType(n)]
TypeOfFileVanilla == [n \in DropNames |-> matchTextureTypeVanilla(n)]

\* a drop event's FileList: the listener ignores an empty one
FileLists == SeqsUpTo(DropNames, MaxFiles) \ {<<>>}

(***************************************************************************)
(* Browser object URLs.  URL.createObjectURL gives a fresh URL: its id is  *)
(* its index in objectUrls.  A dropped file that gets a URL is known by    *)
(* that id.                                                                *)
(***************************************************************************)
NoUrl == 0
createObjectURL(urls, name) == Append(urls, [name |-> name, revoked |-> FALSE])
revokeObjectURL(urls, u) == [urls EXCEPT ![u].revoked = TRUE]
LiveUrls == {u \in 1..Len(objectUrls) : ~objectUrls[u].revoked}

NoAction == [kind |-> "none", file |-> NoUrl]

(***************************************************************************)
(* The vanilla version: three.js objects.                                  *)
(***************************************************************************)
NoTexture == 0     \* a slot's null; textures and dropped files have ids >= 1

EmptySlots == [s \in SlotIds |-> NoTexture]

\* new THREE.MeshStandardMaterial({color, roughness, metalness})
NewMeshStandardMaterial(color, roughness, metalness) ==
    [color |-> color, roughness |-> roughness, metalness |-> metalness,
     displacementScale |-> 100,
     map |-> NoTexture, normalMap |-> NoTexture, roughnessMap |-> NoTexture,
     metalnessMap |-> NoTexture, aoMap |-> NoTexture,
     displacementMap |-> NoTexture]

\* the texture TextureLoader hands to its onLoad callback
NewTexture ==
    [disposed |-> 0, wrap |-> "ClampToEdgeWrapping",
     repeat |-> [x |-> 100, y |-> 100], colorSpace |-> "NoColorSpace"]

dispose(texs, t) == [texs EXCEPT ![t].disposed = @ + 1]

\* updateMaterial's slots.forEach, from slot i on
RECURSIVE ApplyTextures(_, _, _, _)
ApplyTextures(i, st, mat, texs) ==
    IF i > Len(slots) THEN [mat |-> mat, textures |-> texs]
    ELSE LET id == slots[i]
             tex == st.material[id]
         IN  IF tex # NoTexture
             THEN ApplyTextures(i + 1, st,
                      [mat EXCEPT ![id] = tex],
                      [texs EXCEPT ![tex].wrap = "RepeatWrapping",
                                   ![tex].repeat = [x |-> st.settings.tiling,
                                                    y |-> st.settings.tiling],
                                   ![tex].colorSpace =
                                       IF id = "map" THEN "SRGBColorSpace"
                                       ELSE "NoColorSpace"])
             ELSE ApplyTextures(i + 1, st, [mat EXCEPT ![id] = NoTexture], texs)

\* updateMaterial(): the mesh always exists once initThree has run
updateMaterial(st, m, texs) ==
    LET hasTextures == \E s \in SlotIds : st.material[s] # NoTexture
        mat1 == [m.material EXCEPT
                   !.displacementScale = st.settings.displacementScale,
                   !.roughness = st.settings.roughness,
                   !.metalness = st.settings.metalness]
        applied == ApplyTextures(1, st, mat1, texs)
        mat2 == [applied.mat EXCEPT
                   !.color = IF st.material.map = NoTexture THEN "27272a"
                             ELSE "ffffff"]
    IN  [mesh |-> [m EXCEPT !.material = mat2],
         textures |-> applied.textures,
         controls |-> [autoRotate |-> ~hasTextures]]

\* updateGeometry that never rotates the new mesh
updateGeometryNoRotation(st, texs) ==
    LET geometry == CASE st.settings.shape = "sphere" -> "SphereGeometry"
                      [] st.settings.shape = "plane" -> "PlaneGeometry"
                      [] OTHER -> "BoxGeometry"
        newMesh == [geometry |-> geometry,
                    rotationX |-> 0,
                    material |-> NewMeshStandardMaterial("ffffff",
                                     st.settings.roughness, st.settings.metalness)]
    IN  updateMaterial(st, newMesh, texs)

\* updateGeometry that does not call updateMaterial on the new mesh
updateGeometryNoUpdateMaterial(st, texs) ==
    LET geometry == CASE st.settings.shape = "sphere" -> "SphereGeometry"
                      [] st.settings.shape = "plane" -> "PlaneGeometry"
                      [] OTHER -> "BoxGeometry"
        newMesh == [geometry |-> geometry,
                    rotationX |-> IF st.settings.shape = "plane" THEN -90 ELSE 0,
                    material |-> NewMeshStandardMaterial("ffffff",
                                     st.settings.roughness, st.settings.metalness)]
    IN  [mesh |-> newMesh, textures |-> texs,
         controls |-> [autoRotate |-> \A s \in SlotIds : st.material[s] = NoTexture]]

\* updateGeometry(): a new mesh with a new material, then updateMaterial()
updateGeometry(st, texs) ==
    LET geometry == CASE st.settings.shape = "sphere" -> "SphereGeometry"
                      [] st.settings.shape = "plane" -> "PlaneGeometry"
                      [] OTHER -> "BoxGeometry"
        newMesh == [geometry |-> geometry,
                    rotationX |-> IF st.settings.shape = "plane" THEN -90 ELSE 0,
                    material |-> NewMeshStandardMaterial("ffffff",
                                     st.settings.roughness, st.settings.metalness)]
    IN  updateMaterial(st, newMesh, texs)

\* handleFiles(files) of part_001, from file i on.  w holds what the loop
\* changes: textures (dispose), objectUrls, loads, lastAction.
RECURSIVE handleFilesVanilla(_, _, _, _)
handleFilesVanilla(files, i, st, w) ==
    IF i > Len(files) THEN w
    ELSE LET type == TypeOfFileVanilla[files[i]] IN
         IF type # null
         THEN LET texs == IF st.material[type] # NoTexture
                          THEN dispose(w.textures, st.material[type])
                          ELSE w.textures
                  urls == createObjectURL(w.objectUrls, files[i])
                  url == Len(urls)
              IN  handleFilesVanilla(files, i + 1, st,
                      [textures |-> texs,
                       objectUrls |-> urls,
                       loads |-> w.loads \cup {[url |-> url, type |-> type]},
                       lastAction |-> [w.lastAction EXCEPT
                                          ![type] = [kind |-> "drop", file |-> url]]])
         ELSE handleFilesVanilla(files, i + 1, st, w)

(***************************************************************************)
(* The component version: App.tsx's handlers and MaterialViewer's render.  *)
(***************************************************************************)
NoTextureData == [url |-> NoUrl, name |-> ""]   \* a slot's null
EmptyMaterial == [s \in SlotIds |-> NoTextureData]

\* handleFiles of App.tsx leaving the loop at the first file it cannot classify
RECURSIVE handleFilesStopsAtUnmatched(_, _, _)
handleFilesStopsAtUnmatched(files, i, w) ==
    IF i > Len(files) THEN w
    ELSE LET type == TypeOfFile[files[i]] IN
         IF type # null
         THEN LET revoked == IF w.newMaterial[type] # NoTextureData
                             THEN revokeObjectURL(w.objectUrls,
                                                  w.newMaterial[type].url)
                             ELSE w.objectUrls
                  urls == createObjectURL(revoked, files[i])
                  url == Len(urls)
              IN  handleFilesStopsAtUnmatched(files, i + 1,
                      [newMaterial |-> [w.newMaterial EXCEPT
                                          ![type] = [url |-> url,
                                                     name |-> files[i]]],
                       objectUrls |-> urls,
                       lastAction |-> [w.lastAction EXCEPT
                                          ![type] = [kind |-> "drop", file |-> url]]])
         ELSE w

\* handleFiles(files) of App.tsx, from file i on.  w holds newMaterial and
\* what createObjectURL / revokeObjectURL change.
RECURSIVE handleFiles(_, _, _)
handleFiles(files, i, w) ==
    IF i > Len(files) THEN w
    ELSE LET type == TypeOfFile[files[i]] IN
         IF type # null
         THEN LET revoked == IF w.newMaterial[type] # NoTextureData
                             THEN revokeObjectURL(w.objectUrls,
                                                  w.newMaterial[type].url)
                             ELSE w.objectUrls
                  urls == createObjectURL(revoked, files[i])
                  url == Len(urls)
              IN  handleFiles(files, i + 1,
                      [newMaterial |-> [w.newMaterial EXCEPT
                                          ![type] = [url |-> url,
                                                     name |-> files[i]]],
                       objectUrls |-> urls,
                       lastAction |-> [w.lastAction EXCEPT
                                          ![type] = [kind |-> "drop", file |-> url]]])
         ELSE handleFiles(files, i + 1, w)

\* PBRMeshInternal: the mesh rendered when some slot is loaded
PBRMeshInternal(mat, set) ==
    [geometry |-> CASE set.shape = "sphere" -> "SphereGeometry"
                    [] set.shape = "plane" -> "PlaneGeometry"
                    [] OTHER -> "BoxGeometry",
     rotationX |-> IF set.shape = "plane" THEN -90 ELSE 0,
     material |->
        [displacementScale |-> set.displacementScale,
         roughness |-> IF mat.roughnessMap # NoTextureData THEN 100
                       ELSE set.roughness,
         metalness |-> IF mat.metalnessMap # NoTextureData THEN 100
                       ELSE set.metalness,
         maps |-> [s \in SlotIds |-> mat[s].url]]]

\* FallbackMesh: the mesh rendered when no slot is loaded
FallbackMesh(set) ==
    [geometry |-> CASE set.shape = "sphere" -> "SphereGeometry"
                    [] set.shape = "plane" -> "PlaneGeometry"
                    [] OTHER -> "BoxGeometry",
     rotationX |-> IF set.shape = "plane" THEN -90 ELSE 0,
     material |->
        [displacementScale |-> 100, roughness |-> 80, metalness |-> 20,
         maps |-> [s \in SlotIds |-> NoUrl]]]

\* MaterialViewer: hasTextures ? PBRMeshInternal : FallbackMesh
MaterialViewer(mat, set) ==
    IF \E s \in SlotIds : mat[s] # NoTextureData
    THEN PBRMeshInternal(mat, set)
    ELSE FallbackMesh(set)

\* resetTexture(type) of App.tsx
resetTexture(type, mat, urls) ==
    IF mat[type] # NoTextureData
    THEN [material |-> [mat EXCEPT ![type] = NoTextureData],
          objectUrls |-> revokeObjectURL(urls, mat[type].url)]
    ELSE [material |-> mat, objectUrls |-> urls]

\* resetTexture(type) of part_001
resetTextureVanilla(type, st, m, texs, ctl) ==
    IF st.material[type] # NoTexture
    THEN LET st1 == [st EXCEPT !.material[type] = NoTexture,
                               !.textureFiles[type] = NoTexture]
             r == updateMaterial(st1, m, dispose(texs, st.material[type]))
         IN  [state |-> st1, mesh |-> r.mesh, textures |-> r.textures,
              controls |-> r.controls]
    ELSE [state |-> st, mesh |-> m, textures |-> texs, controls |-> ctl]

\* onLoad storing every texture in the map slot
onLoadIntoMap(l, st, m, texs) ==
    LET st1 == [st EXCEPT !.material["map"] = l.url,
                          !.textureFiles["map"] = l.url]
        r == updateMaterial(st1, m, texs @@ (l.url :> NewTexture))
    IN  [state |-> st1, mesh |-> r.mesh, textures |-> r.textures,
         controls |-> r.controls]

\* onLoad whose texture keeps the repeat the loader gave it
onLoadKeepsRepeat(l, st, m, texs) ==
    LET st1 == [st EXCEPT !.material[l.type] = l.url,
                          !.textureFiles[l.type] = l.url]
        r == updateMaterial(st1, m, texs @@ (l.url :> NewTexture))
    IN  [state |-> st1, mesh |-> r.mesh,
         textures |-> [r.textures EXCEPT ![l.url].repeat = NewTexture.repeat],
         controls |-> r.controls]

\* the onLoad callback handleFiles of part_001 gives to textureLoader.load
onLoad(l, st, m, texs) ==
    LET st1 == [st EXCEPT !.material[l.type] = l.url,
                          !.textureFiles[l.type] = l.url]
        r == updateMaterial(st1, m, texs @@ (l.url :> NewTexture))
    IN  [state |-> st1, mesh |-> r.mesh, textures |-> r.textures,
         controls |-> r.controls]

\* updateAll(val) of parameter p (part_001 initUI)
updateAll(p, val, st, m, texs, ctl, rend) ==
    LET st1 == [st EXCEPT !.settings[p] = val] IN
    IF p = "exposure"
    THEN [state |-> st1, mesh |-> m, textures |-> texs, controls |-> ctl,
          renderer |-> [rend EXCEPT !.toneMappingExposure = val]]
    ELSE LET r == updateMaterial(st1, m, texs)
         IN  [state |-> st1, mesh |-> r.mesh, textures |-> r.textures,
              controls |-> r.controls, renderer |-> rend]

\* the numeric box listener storing the number as typed
clampNone(p, val) == val

\* the "Clamp to slider bounds" of the numeric box listener
clamp(p, val) == Max(SliderMin(p), Min(SliderMax(p), val))

(***************************************************************************)
(* Initial states.                                                         *)
(***************************************************************************)
probeVars == <<filename, matched>>
componentVars == <<material, settings>>
vanillaVars == <<state, textures, loads, mesh, renderer, controls, ui>>

InitialState ==
    [material |-> EmptySlots, settings |-> DefaultSettings,
     textureFiles |-> EmptySlots]

NotMatched == [called |-> FALSE, component |-> null, vanilla |-> null]

\* the page once the scripts have run: initThree(), initUI()
InitApp ==
    /\ impl \in {"component", "vanilla"}
    /\ objectUrls = <<>>
    /\ material = EmptyMaterial
    /\ settings = DefaultSettings
    /\ state = InitialState
    /\ textures = <<>>
    /\ loads = {}
    /\ mesh = updateGeometry(InitialState, <<>>).mesh
    /\ controls = updateGeometry(InitialState, <<>>).controls
    /\ renderer = [toneMappingExposure |-> InitialState.settings.exposure]
    /\ ui = [p \in ParamIds |->
                [slider |-> InitialState.settings[p],
                 input |-> NumberToString(InitialState.settings[p])]]
    /\ budget = MaxParamEvents
    /\ lastAction = [s \in SlotIds |-> NoAction]
    /\ lastEvent = [kind |-> "init", arg |-> <<>>]

Init ==
    /\ InitApp
    /\ filename = ""
    /\ matched = NotMatched

InitMatch ==
    /\ InitApp
    /\ filename \in FileNames
    /\ matched = NotMatched

(***************************************************************************)
(* The classifier run: matchTextureType applied to the file name.          *)
(***************************************************************************)
Match ==
    /\ ~matched.called
    /\ matched' = [called |-> TRUE,
                   component |-> matchTextureType(filename),
                   vanilla |-> matchTextureTypeVanilla(filename)]
    /\ UNCHANGED <<filename, appVars>>

(***************************************************************************)
(* Events of the component version.                                        *)
(***************************************************************************)
Matching(files) ==
    Cardinality({i \in 1..Len(files) : TypeOfFile[files[i]] # null})

\* onDrop: handleFiles(e.dataTransfer.files), then setMaterial(newMaterial)
ComponentDrop(files) ==
    /\ impl = "component"
    /\ Len(objectUrls) + Matching(files) <= MaxUrls
    /\ LET w == handleFiles(files, 1, [newMaterial |-> material,
                                       objectUrls |-> objectUrls,
                                       lastAction |-> lastAction])
       IN  /\ material' = w.newMaterial
           /\ objectUrls' = w.objectUrls
           /\ lastAction' = w.lastAction
    /\ lastEvent' = [kind |-> "drop",
                      arg |-> [processed |-> Matching(files),
                               ignored |-> Len(files) - Matching(files)]]
    /\ UNCHANGED <<impl, settings, vanillaVars, budget, probeVars>>

\* the trash button of a loaded slot: resetTexture(slot.id)
ComponentRemove(type) ==
    /\ impl = "component"
    /\ material[type] # NoTextureData
    /\ LET r == resetTexture(type, material, objectUrls)
       IN  /\ material' = r.material
           /\ objectUrls' = r.objectUrls
    /\ lastAction' = [lastAction EXCEPT ![type] = [kind |-> "remove", file |-> NoUrl]]
    /\ lastEvent' = [kind |-> "remove", arg |-> type]
    /\ UNCHANGED <<impl, settings, vanillaVars, budget, probeVars>>

\* a shape button: setSettings(s => ({...s, shape}))
ComponentShape(shape) ==
    /\ impl = "component"
    /\ settings' = [settings EXCEPT !.shape = shape]
    /\ lastEvent' = [kind |-> "geometry", arg |-> shape]
    /\ UNCHANGED <<impl, objectUrls, material, vanillaVars, budget, lastAction,
                   probeVars>>

\* a range input's onChange: setSettings(s => ({...s, [p]: parseFloat(value)}))
ComponentRange(p, v) ==
    /\ impl = "component"
    /\ budget > 0
    /\ budget' = budget - 1
    /\ settings' = [settings EXCEPT ![p] = v]
    /\ lastEvent' = [kind |-> "range", arg |-> p]
    /\ UNCHANGED <<impl, objectUrls, material, vanillaVars, lastAction, probeVars>>

(***************************************************************************)
(* Events of the vanilla version.                                          *)
(***************************************************************************)
MatchingVanilla(files) ==
    Cardinality({i \in 1..Len(files) : TypeOfFileVanilla[files[i]] # null})

\* window 'drop': handleFiles(e.dataTransfer.files)
VanillaDrop(files) ==
    /\ impl = "vanilla"
    /\ Len(objectUrls) + MatchingVanilla(files) <= MaxUrls
    /\ LET w == handleFilesVanilla(files, 1, state,
                    [textures |-> textures, objectUrls |-> objectUrls,
                     loads |-> loads, lastAction |-> lastAction])
       IN  /\ textures' = w.textures
           /\ objectUrls' = w.objectUrls
           /\ loads' = w.loads
           /\ lastAction' = w.lastAction
    /\ lastEvent' = [kind |-> "drop",
                      arg |-> [processed |-> MatchingVanilla(files),
                               ignored |-> Len(files) - MatchingVanilla(files)]]
    /\ UNCHANGED <<impl, componentVars, state, mesh, renderer, controls, ui,
                   budget, probeVars>>

\* the browser finishes decoding an image: the loader calls onLoad
VanillaLoad(l) ==
    /\ impl = "vanilla"
    /\ l \in loads
    /\ loads' = loads \ {l}
    /\ LET r == onLoad(l, state, mesh, textures)
       IN  /\ state' = r.state
           /\ mesh' = r.mesh
           /\ textures' = r.textures
           /\ controls' = r.controls
    /\ lastEvent' = [kind |-> "load", arg |-> l.url]
    /\ UNCHANGED <<impl, objectUrls, componentVars, renderer, ui, budget,
                   lastAction, probeVars>>

\* the remove button renderTextureSlots gives a slot that shows a file
VanillaRemove(type) ==
    /\ impl = "vanilla"
    /\ state.textureFiles[type] # NoTexture
    /\ LET r == resetTextureVanilla(type, state, mesh, textures, controls)
       IN  /\ state' = r.state
           /\ mesh' = r.mesh
           /\ textures' = r.textures
           /\ controls' = r.controls
    /\ lastAction' = [lastAction EXCEPT ![type] = [kind |-> "remove", file |-> NoUrl]]
    /\ lastEvent' = [kind |-> "remove", arg |-> type]
    /\ UNCHANGED <<impl, objectUrls, componentVars, loads, renderer, ui, budget,
                   probeVars>>

\* a .geometry-btn click: state.settings.shape = btn.dataset.shape; updateGeometry()
VanillaShape(shape) ==
    /\ impl = "vanilla"
    /\ LET st1 == [state EXCEPT !.settings.shape = shape]
           r == updateGeometry(st1, textures)
       IN  /\ state' = st1
           /\ mesh' = r.mesh
           /\ textures' = r.textures
           /\ controls' = r.controls
    /\ lastEvent' = [kind |-> "geometry", arg |-> shape]
    /\ UNCHANGED <<impl, objectUrls, componentVars, loads, renderer, ui, budget,
                   lastAction, probeVars>>

\* the slider's 'input' listener; the browser has moved the slider to v
VanillaSlider(p, v) ==
    /\ impl = "vanilla"
    /\ budget > 0
    /\ budget' = budget - 1
    /\ LET val == parseFloat(NumberToString(v))[1]
           r == updateAll(p, val, state, mesh, textures, controls, renderer)
       IN  /\ ui' = [ui EXCEPT ![p] = [slider |-> v,
                                       input |-> NumberToString(val)]]
           /\ state' = r.state
           /\ mesh' = r.mesh
           /\ textures' = r.textures
           /\ controls' = r.controls
           /\ renderer' = r.renderer
    /\ lastEvent' = [kind |-> "slider", arg |-> p]
    /\ UNCHANGED <<impl, objectUrls, componentVars, loads, lastAction, probeVars>>

\* the numeric box's 'input' listener; the browser has put text in the box
VanillaBox(p, text) ==
    /\ impl = "vanilla"
    /\ budget > 0
    /\ budget' = budget - 1
    /\ IF isNaN(parseFloat(text))
       THEN /\ ui' = [ui EXCEPT ![p].input = text]
            /\ UNCHANGED <<state, mesh, textures, controls, renderer>>
       ELSE LET val == clamp(p, parseFloat(text)[1])
                r == updateAll(p, val, state, mesh, textures, controls, renderer)
            IN  /\ ui' = [ui EXCEPT ![p] = [slider |-> val, input |-> text]]
                /\ state' = r.state
                /\ mesh' = r.mesh
                /\ textures' = r.textures
                /\ controls' = r.controls
                /\ renderer' = r.renderer
    /\ lastEvent' = [kind |-> "box", arg |-> p]
    /\ UNCHANGED <<impl, objectUrls, componentVars, loads, lastAction, probeVars>>

(***************************************************************************)
(* Specifications.                                                         *)
(***************************************************************************)
Next ==
    \/ \E files \in FileLists : ComponentDrop(files)
    \/ \E type \in SlotIds : ComponentRemove(type)
    \/ \E shape \in Shapes : ComponentShape(shape)
    \/ \E p \in ComponentParamIds : \E v \in SliderValues(p) : ComponentRange(p, v)
    \/ \E files \in FileLists : VanillaDrop(files)
    \/ \E l \in loads : VanillaLoad(l)
    \/ \E type \in SlotIds : VanillaRemove(type)
    \/ \E shape \in Shapes : VanillaShape(shape)
    \/ \E p \in ParamIds : \E v \in SliderValues(p) : VanillaSlider(p, v)
    \/ \E p \in ParamIds : \E text \in TypedTexts : VanillaBox(p, text)

\* a run of one of the two front-ends
Spec == Init /\ [][Next]_vars

NextMatch == Match

\* a run of the classifier on one file name
SpecMatch == InitMatch /\ [][NextMatch]_vars

(***************************************************************************)
(* The classifier's claims, on the classifier run (SpecMatch).             *)
(***************************************************************************)
\* the slots whose keyword group (as the code tests it) occurs in the name
GroupsIn(name) ==
    LET f == toLowerCase(name)
    IN  {s \in SlotIds : \E k \in CodeKeywords(s) : includes(f, k)}

\* the slots whose keyword group (as the README lists it) occurs in the name
ReadmeGroupsIn(name) ==
    LET f == toLowerCase(name)
    IN  {s \in SlotIds : \E k \in ReadmeKeywords(s) : includes(f, k)}

Earlier(e, s) == SlotIndex(e) < SlotIndex(s)

C8_ReadmeListsComplete ==
    matched.called =>
        /\ matched.component # null => matched.component \in ReadmeGroupsIn(filename)
        /\ matched.vanilla # null => matched.vanilla \in ReadmeGroupsIn(filename)

\* C9: the result is the first, in the order map, normalMap, roughnessMap,
\* metalnessMap, aoMap, displacementMap, of the groups that have a keyword
\* anywhere in the lower-cased name, and null when no group has one: it is
\* one slot or null, decided by which groups occur and not by where.
C9_FirstMatchingGroup ==
    matched.called =>
        LET present == GroupsIn(filename)
            first == IF present = {} THEN null
                     ELSE CHOOSE s \in present :
                              \A e \in present : ~Earlier(e, s)
        IN  /\ matched.component \in SlotIds \cup {null}
            /\ matched.component = first
            /\ matched.vanilla = first

\* C9's case: a name that starts with a normal keyword and goes on with an
\* albedo keyword has been classified as map
C9_Witness ==
    /\ matched.called
    /\ Cardinality(GroupsIn(filename)) >= 2
    /\ Len(filename) > 6
    /\ SubSeq(filename, 1, 6) = "normal"
    /\ matched.component = "map"
    /\ matched.vanilla = "map"

(***************************************************************************)
(* The applications' claims, on a run of a front-end (Spec).               *)
(***************************************************************************)
Classified(n) == TypeOfFile[n] # null
ClassifiedVanilla(n) == TypeOfFileVanilla[n] # null

\* C2: a dropped file that matches no keyword group is ignored.  A drop
\* whose files all match nothing changes no slot, no setting, no object
\* URL, no image load and nothing rendered; a drop that also holds matching
\* files does exactly what the drop of its matching files alone does.
C2_UnmatchedIgnored ==
    [][\A files \in FileLists :
        /\ ComponentDrop(files) =>
              LET kept == SelectSeq(files, Classified)
                  w == handleFiles(kept, 1, [newMaterial |-> material,
                                             objectUrls |-> objectUrls,
                                             lastAction |-> lastAction])
              IN  /\ kept = <<>> => UNCHANGED <<material, objectUrls>>
                  /\ material' = w.newMaterial
                  /\ objectUrls' = w.objectUrls
                  /\ Len(objectUrls') = Len(objectUrls) + Len(kept)
                  /\ UNCHANGED <<settings, vanillaVars>>
        /\ VanillaDrop(files) =>
              LET kept == SelectSeq(files, ClassifiedVanilla)
                  w == handleFilesVanilla(kept, 1, state,
                           [textures |-> textures, objectUrls |-> objectUrls,
                            loads |-> loads, lastAction |-> lastAction])
              IN  /\ kept = <<>> => UNCHANGED <<textures, objectUrls, loads>>
                  /\ textures' = w.textures
                  /\ objectUrls' = w.objectUrls
                  /\ loads' = w.loads
                  /\ Len(objectUrls') = Len(objectUrls) + Len(kept)
                  /\ Cardinality(loads') = Cardinality(loads) + Len(kept)
                  /\ UNCHANGED <<state, mesh, renderer, controls, ui,
                                 componentVars>>
      ]_vars

\* C2's case: a drop of one matching and one unmatched file has been handled
C2_Witness ==
    /\ lastEvent.kind = "drop"
    /\ lastEvent.arg.ignored >= 1
    /\ lastEvent.arg.processed >= 1

\* the object URLs of the assets held in, or loading into, a slot
HeldUrls ==
    IF impl = "component"
    THEN {material[s].url : s \in {t \in SlotIds : material[t] # NoTextureData}}
    ELSE {state.material[s] : s \in {t \in SlotIds : state.material[t] # NoTexture}}
           \cup {l.url : l \in loads}

\* C3 as stated: the object URLs created and not yet revoked are exactly the
\* URLs of the assets held in, or still loading into, a slot.
C3_LiveUrlsAreHeld == LiveUrls = HeldUrls

\* C4: every slot holds nothing or one asset, the asset of a file that
\* matchTextureType classifies into that slot; no asset is in two slots; in
\* the vanilla version the file shown for a slot is the file of its texture.
C4_OneAssetPerSlot ==
    /\ \A s \in SlotIds :
          material[s] # NoTextureData =>
              /\ material[s].url \in 1..Len(objectUrls)
              /\ objectUrls[material[s].url].name = material[s].name
              /\ TypeOfFile[material[s].name] = s
    /\ \A s, t \in SlotIds :
          (material[s] # NoTextureData /\ material[s].url = material[t].url)
              => s = t
    /\ \A s \in SlotIds :
          /\ state.textureFiles[s] = state.material[s]
          /\ state.material[s] # NoTexture =>
                /\ state.material[s] \in DOMAIN textures
                /\ TypeOfFileVanilla[objectUrls[state.material[s]].name] = s
    /\ \A s, t \in SlotIds :
          (state.material[s] # NoTexture /\ state.material[s] = state.material[t])
              => s = t

\* C4's case: the texture of a second file has taken the place of the
\* texture of a first file in the same slot
C4_Witness ==
    \E s \in SlotIds :
        /\ state.material[s] = 2
        /\ 1 \in DOMAIN textures
        /\ TypeOfFileVanilla[objectUrls[1].name] = s

\* the geometry the claim names for a shape
GeometryNamed(shape) ==
    CASE shape = "cube" -> "BoxGeometry"
      [] shape = "sphere" -> "SphereGeometry"
      [] shape = "plane" -> "PlaneGeometry"

\* C5: the shape is cube, sphere or plane, and the mesh has the geometry
\* the shape names and is rotated -90 degrees about X exactly for a plane.
C5_GeometryFollowsShape ==
    /\ settings.shape \in Shapes
    /\ state.settings.shape \in Shapes
    /\ mesh.geometry = GeometryNamed(state.settings.shape)
    /\ mesh.rotationX = -90 <=> state.settings.shape = "plane"
    /\ mesh.rotationX \in {-90, 0}
    /\ LET rendered == MaterialViewer(material, settings)
       IN  /\ rendered.geometry = GeometryNamed(settings.shape)
           /\ rendered.rotationX = -90 <=> settings.shape = "plane"
           /\ rendered.rotationX \in {-90, 0}

\* C5's case: the plane button has been clicked in the vanilla version
C5_Witness ==
    /\ impl = "vanilla"
    /\ lastEvent.kind = "geometry"
    /\ state.settings.shape = "plane"
    /\ mesh.geometry = "PlaneGeometry"

\* C6: each texture slot of the current mesh's material holds the texture
\* of the same slot of state.material, and null when that slot is empty.
C6_MeshShowsStateTextures ==
    \A s \in SlotIds : mesh.material[s] = state.material[s]

\* C6's case: a geometry change with a texture loaded
C6_Witness ==
    /\ lastEvent.kind = "geometry"
    /\ state.settings.shape = "sphere"
    /\ \E s \in SlotIds : state.material[s] # NoTexture /\ mesh.material[s] # NoTexture

\* the props the component version would have for the vanilla version's state
ComponentMaterialOf(st) ==
    [s \in SlotIds |->
        IF st.material[s] # NoTexture
        THEN [url |-> st.material[s], name |-> objectUrls[st.material[s]].name]
        ELSE NoTextureData]

\* C7 as stated: with the same slots loaded and the same settings, the mesh
\* material of the vanilla version has the roughness and the metalness that
\* the component version's PBRMeshInternal renders.
C7_SameFactors ==
    (impl = "vanilla" /\ \E s \in SlotIds : state.material[s] # NoTexture) =>
        LET rendered == PBRMeshInternal(ComponentMaterialOf(state), state.settings)
        IN  /\ mesh.material.roughness = rendered.material.roughness
            /\ mesh.material.metalness = rendered.material.metalness

\* C10 as stated: when no image load is pending, a slot whose last user
\* action was a drop shows the file dropped last, and a slot whose last user
\* action was a removal is empty.
C10_LastActionWins ==
    (impl = "vanilla" /\ loads = {}) =>
        \A s \in SlotIds :
            /\ lastAction[s].kind = "drop" =>
                   state.textureFiles[s] = lastAction[s].file
            /\ lastAction[s].kind = "remove" =>
                   state.material[s] = NoTexture

\* C11 as stated: in the vanilla version no slot of state.material holds,
\* and the mesh material does not use, a texture that dispose() has been
\* called on, and dispose() is called at most once on a texture.
C11_NoDisposedTextureInUse ==
    impl = "vanilla" =>
        /\ \A s \in SlotIds :
              /\ state.material[s] # NoTexture =>
                     textures[state.material[s]].disposed = 0
              /\ mesh.material[s] # NoTexture =>
                     textures[mesh.material[s]].disposed = 0
        /\ \A t \in DOMAIN textures : textures[t].disposed <= 1

(***************************************************************************)
(* Letter case of a file name (classifier run).                            *)
(***************************************************************************)
UpperChar(c) ==
    IF \E i \in 1..Len(LowerCase) : SubSeq(LowerCase, i, i) = c
    THEN LET i == CHOOSE j \in 1..Len(LowerCase) : SubSeq(LowerCase, j, j) = c
         IN  SubSeq(UpperCase, i, i)
    ELSE c

\* the other case of a letter; any other character is left as it is
FlipChar(c) == IF LowerChar(c) # c THEN LowerChar(c) ELSE UpperChar(c)

RECURSIVE toUpperCase(_)
toUpperCase(s) ==
    IF Len(s) = 0 THEN ""
    ELSE UpperChar(SubSeq(s, 1, 1)) \o toUpperCase(SubSeq(s, 2, Len(s)))

\* s with the case of its i-th character changed
FlipAt(s, i) ==
    SubSeq(s, 1, i - 1) \o FlipChar(SubSeq(s, i, i)) \o SubSeq(s, i + 1, Len(s))

\* s with the case of every character changed
RECURSIVE FlipAll(_)
FlipAll(s) ==
    IF Len(s) = 0 THEN ""
    ELSE FlipChar(SubSeq(s, 1, 1)) \o FlipAll(SubSeq(s, 2, Len(s)))

\* names that differ from the name only in the case of letters: all lower,
\* all upper, every letter changed, and one letter changed at each place
CaseVariants(name) ==
    {toLowerCase(name), toUpperCase(name), FlipAll(name)}
        \cup {FlipAt(name, i) : i \in 1..Len(name)}

\* the file names whose case variants are classified
CaseNames == NamesOf(MaxCaseParts) \ {""}

InitCase ==
    /\ InitApp
    /\ filename \in CaseNames
    /\ matched = NotMatched

NextCase == Match

\* a run of the classifier on one of the names whose case is varied
SpecCase == InitCase /\ [][NextCase]_vars

\* C12: matchTextureType returns for every variant of the name that differs
\* from it only in the case of its letters what it returns for the name.
C12_CaseInsensitive ==
    matched.called =>
        \A v \in CaseVariants(filename) :
            /\ matchTextureType(v) = matched.component
            /\ matchTextureTypeVanilla(v) = matched.vanilla

\* C12's case: a name with upper-case letters in its keyword has been
\* classified, and so are variants of it that differ from it
C12_Witness ==
    /\ matched.called
    /\ matched.component = "metalnessMap"
    /\ matched.vanilla = "metalnessMap"
    /\ filename # toLowerCase(filename)
    /\ Cardinality(CaseVariants(filename)) > Len(filename)

(***************************************************************************)
(* The parameters of the vanilla version.                                  *)
(***************************************************************************)
InSliderRange(p, v) == SliderMin(p) <= v /\ v <= SliderMax(p)

\* C13: every numeric setting of the vanilla version is within its
\* slider's [min, max]; a numeric box event with a number stores that
\* number clamped to [min, max]; a numeric box event with no number leaves
\* the settings, the slider, the mesh and its material, the textures and
\* the renderer as they were.
C13_SettingsWithinSliderBounds ==
    /\ \A p \in ParamIds : InSliderRange(p, state.settings[p])
    /\ [][/\ \A p \in ParamIds : InSliderRange(p, state'.settings[p])
          /\ \A p \in ParamIds : \A text \in TypedTexts :
                VanillaBox(p, text) =>
                    IF isNaN(parseFloat(text))
                    THEN /\ UNCHANGED <<state, mesh, textures, renderer, controls>>
                         /\ ui'[p].slider = ui[p].slider
                    ELSE LET n == parseFloat(text)[1] IN
                         /\ state'.settings[p] =
                                IF n < SliderMin(p) THEN SliderMin(p)
                                ELSE IF n > SliderMax(p) THEN SliderMax(p)
                                ELSE n
                         /\ ui'[p].slider = state'.settings[p]
       ]_vars

\* C13's case: a number above the slider's max has been typed into the
\* tiling box and the setting is the max
C13_Witness ==
    /\ lastEvent = [kind |-> "box", arg |-> "tiling"]
    /\ parseFloat(ui["tiling"].input) # NaN
    /\ parseFloat(ui["tiling"].input)[1] > SliderMax("tiling")
    /\ state.settings.tiling = SliderMax("tiling")

\* an 'input' event of the slider or of the numeric box of parameter p
ParamInputEvent(p) ==
    \/ \E v \in SliderValues(p) : VanillaSlider(p, v)
    \/ \E text \in TypedTexts : VanillaBox(p, text)

\* C14 as stated: after every slider or numeric-box input event that
\* changes the setting of a parameter, the slider's value, the numeric
\* box's value and state.settings of that parameter are all equal.
C14_SliderBoxSettingEqual ==
    [][\A p \in ParamIds :
          (ParamInputEvent(p) /\ state'.settings[p] # state.settings[p]) =>
              /\ ui'[p].slider = state'.settings[p]
              /\ ui'[p].input = NumberToString(state'.settings[p])]_vars

\* C15: in every state of the vanilla version the renderer's exposure and
\* the mesh material's displacementScale are the settings' values, and
\* every texture held in a slot repeats settings.tiling times on both axes.
C15_RenderedMirrorsSettings ==
    impl = "vanilla" =>
        /\ renderer.toneMappingExposure = state.settings.exposure
        /\ mesh.material.displacementScale = state.settings.displacementScale
        /\ \A s \in SlotIds :
              state.material[s] # NoTexture =>
                  textures[state.material[s]].repeat =
                      [x |-> state.settings.tiling, y |-> state.settings.tiling]

\* C15's case: a texture's load has completed after the tiling was changed
C15_Witness ==
    /\ impl = "vanilla"
    /\ lastEvent.kind = "load"
    /\ state.settings.tiling # DefaultTiling
    /\ \E s \in SlotIds :
          /\ state.material[s] # NoTexture
          /\ textures[state.material[s]].repeat.x = state.settings.tiling

\* C15's other case: a geometry change has built a new material while a
\* slot holds a texture and the displacement is not the default
C15_WitnessGeometry ==
    /\ impl = "vanilla"
    /\ lastEvent.kind = "geometry"
    /\ state.settings.displacementScale # DefaultDisplacementScale
    /\ \E s \in SlotIds : state.material[s] # NoTexture
====
